---- MODULE Spec2Model ----
(***************************************************************************)
(* State-machine model of the real-time chat server of tungpt-back:        *)
(* the Socket.IO connection registry, the conversation rooms, the typing   *)
(* map, and the two message-submission paths (socket `stream-message` and  *)
(* HTTP POST /conversations/:id/messages) with the persistence and usage   *)
(* writes they perform.                                                    *)
(*                                                                         *)
(* Every async handler is cut at its `await`s: one action per stretch of   *)
(* synchronous code that runs when an awaited promise settles.  The        *)
(* settling of a database write and the continuation that follows it are   *)
(* one step; the event loop runs no other task in between that could       *)
(* change what the continuation emits.                                     *)
(***************************************************************************)
EXTENDS Naturals, Integers, Sequences, FiniteSets, TLC

(* ------------------------------ universe ------------------------------ *)

Sockets == {"A", "B"}
Users == {"u1", "u2"}
Convs == {"c1", "c2"}
NoUser == "nobody"
NoSock == "nosock"
NoConv == "noconv"

\* No POST /notify/:userId has been made yet.  Observer's fields: `handles`,
\* the target's live connections when the request was handled, and `got`,
\* the connections the notification was delivered to.
NoNotify == [to |-> NoUser, status |-> 0, handles |-> {}, got |-> {}]

\* The conversations submissions are made on in the streaming specification.
StreamConvs == {"c1"}

\* Conversation.userId of the stored conversations.
ConvOwner == [c \in Convs |-> IF c = "c1" THEN "u1" ELSE "u2"]

\* Text of a submitted user message.
UserTexts == {"hi"}

\* The provider's stream: its n-th delta carries the n-th piece of the reply
\* or no content at all ("": a role-only or finish delta).
Piece(n) == IF n % 2 = 1 THEN "x" ELSE "y"
Deltas(n) == {"", Piece(n)}

MaxSessions == 2
MaxChunks == 2
MaxClock == 1
MaxInbox == 3
MaxTime == 2

\* userSchema.methods.canSendMessage: messages per month of each plan.
FreeLimit == 20
BasicLimit == 100
PremiumLimit == 1000

Plans == {"free", "basic", "premium"}

Limits == [p \in Plans |->
             IF p = "free" THEN FreeLimit
             ELSE IF p = "basic" THEN BasicLimit ELSE PremiumLimit]

\* The schema's defaults of user.subscription.  `paidPlan` is the observer's
\* note of the plan the user's last successful payment was for.
NoOrder == "none"
FreeSubscription ==
  [plan |-> "free", status |-> "active", konnectOrderId |-> NoOrder,
   paidPlan |-> "free"]

\* SUBSCRIPTION_PLANS: the plans a checkout can name.
PaidPlans == {"basic", "premium"}

\* `sub_${Date.now()}_${req.user._id}`, one order per user in the model.
OrderOf(u) == "sub_" \o u

\* What a template literal makes of an object: `${ {conversationId} }`.
ObjectString == "[object Object]"

\* The ids of the rooms `conversation:<id>` that connections can be in.
RoomIds == Convs \cup {ObjectString}

ErrorReply == "Sorry, I encountered an error while processing your request. Please try again."

VARIABLES
  socketUser,   \* socket.userId of each live connection, NoUser when not connected
  activeUsers,  \* Map userId -> socketId
  userSockets,  \* Map socketId -> userId (its key set)
  rooms,        \* members of room `conversation:<id>`
  typingUsers,  \* Map conversationId -> Set of typing userIds (absent key = {})
  inbox,        \* events delivered to each connection, in arrival order
  store,        \* the conversations collection
  usage,        \* users collection: usage.messagesThisMonth
  sess,         \* the submissions in flight or finished
  now,          \* wall clock (Date.now()), in ticks
  lastNotify,   \* the last POST /notify/:userId and its answer
  subscription, \* users collection: subscription.plan, subscription.status
  typedAt       \* observer: when the user's typing entry in a room was last
                \* started, -1 while the user has no entry

vars == <<socketUser, activeUsers, userSockets, rooms, typingUsers, inbox,
          store, usage, sess, now, lastNotify, subscription, typedAt>>

Sessions == 1..MaxSessions

(* ------------------------------ helpers ------------------------------- *)

Min(a, b) == IF a < b THEN a ELSE b

\* Clock values a `new Date()` / Date.now() evaluated after `t` can return.
ClockReads(t) == t..Min(t + 1, MaxClock)

\* io.to(`conversation:${c}`): every current member of the room.
IoTo(c) == rooms[c]

\* socket.to(`conversation:${c}`): every current member except the socket.
SocketTo(sock, c) == rooms[c] \ {sock}

\* socket.emit: the socket itself, as long as that connection is alive.
SocketEmit(s) == IF sess[s].sockLive THEN {sess[s].sock} ELSE {}

Deliver(inb, targets, e) ==
  [k \in Sockets |-> IF k \in targets THEN Append(inb[k], e) ELSE inb[k]]

(* ------------------------------ payloads ------------------------------ *)
\* `sid` is the observer's tag of the submission an event stems from; it is
\* not part of the payload a client sees.  `timestamp: new Date()` is kept
\* where a handler builds the payload of one event more than once
\* (ai-stream-complete); an event emitted once reaches every recipient
\* as the same object, whatever its timestamp.

MessageSent(c, text, u, s) ==
  [ev |-> "message-sent", conversationId |-> c, role |-> "user",
   content |-> text, userId |-> u, sid |-> s]

AiTypingStart(c, s) ==
  [ev |-> "ai-typing-start", conversationId |-> c, sid |-> s]

AiStreamChunk(c, text, s) ==
  [ev |-> "ai-stream-chunk", conversationId |-> c, chunk |-> text,
   isComplete |-> FALSE, sid |-> s]

AiStreamComplete(c, text, ts, n, s) ==
  [ev |-> "ai-stream-complete", conversationId |-> c, role |-> "assistant",
   content |-> text, timestamp |-> ts, tokens |-> n, sid |-> s]

AiStreamError(c, s) ==
  [ev |-> "ai-stream-error", conversationId |-> c, sid |-> s]

AiTypingStop(c, s) ==
  [ev |-> "ai-typing-stop", conversationId |-> c, sid |-> s]

SocketError(text, s) ==
  [ev |-> "error", message |-> text, sid |-> s]

(* --------------------------- stored documents ------------------------- *)

EmptyDoc ==
  [messages |-> << >>, totalTokens |-> 0, totalMessages |-> 0, messageCount |-> 0]

\* A loaded conversation document: the fields plus `base`, the number of
\* array elements already in the database (the rest are pushed, unsaved).
LoadDoc(c) ==
  [messages |-> store[c].messages, totalTokens |-> store[c].totalTokens,
   totalMessages |-> store[c].totalMessages,
   messageCount |-> store[c].messageCount, base |-> Len(store[c].messages)]

NoDoc ==
  [messages |-> << >>, totalTokens |-> 0, totalMessages |-> 0,
   messageCount |-> 0, base |-> 0]

\* addMessage that loses the token count of the message it pushes.
AddMessage_NoTokens(doc, role, text, toks, pt, err, s) ==
  LET message == [role |-> role, content |-> text, tokens |-> 0,
                  processingTime |-> pt, error |-> err, sid |-> s]
      msgs == Append(doc.messages, message)
  IN [doc EXCEPT !.messages = msgs,
                 !.totalMessages = doc.totalMessages + 1,
                 !.messageCount = Len(msgs)]

\* conversationSchema.methods.addMessage up to `this.save()`.  pt is
\* metadata.processingTime (0 for a message passed without one).
AddMessage(doc, role, text, toks, pt, err, s) ==
  LET message == [role |-> role, content |-> text, tokens |-> toks,
                  processingTime |-> pt, error |-> err, sid |-> s]
      msgs == Append(doc.messages, message)
  IN [doc EXCEPT !.messages = msgs,
                 !.totalTokens = doc.totalTokens + toks,
                 !.totalMessages = doc.totalMessages + 1,
                 !.messageCount = Len(msgs)]

Pending(doc) == SubSeq(doc.messages, doc.base + 1, Len(doc.messages))

\* messageSchema: content is required, so a message with empty content
\* fails validation and the save rejects.
Valid(doc) == \A i \in 1..Len(Pending(doc)) : Pending(doc)[i].content # ""

\* What a successful save() writes: the pushed elements are appended to the
\* stored array ($push), the modified counters are set to the local values.
SavedStore(c, doc) ==
  [store EXCEPT ![c] =
     [messages |-> store[c].messages \o Pending(doc),
      totalTokens |-> doc.totalTokens,
      totalMessages |-> doc.totalMessages,
      messageCount |-> doc.messageCount]]

AfterSave(doc) == [doc EXCEPT !.base = Len(doc.messages)]

(* ------------------------------ sessions ------------------------------ *)

IdleSession ==
  [pc |-> "idle", path |-> "none", sock |-> NoSock, sockLive |-> FALSE,
   user |-> NoUser, conv |-> NoConv, text |-> "", doc |-> NoDoc,
   fullResponse |-> "",
   tokenCount |-> 0, yields |-> 0, reqUsage |-> 0, res |-> "none",
   busyAtSubmit |-> FALSE, atLimit |-> FALSE, invoked |-> FALSE,
   roomEmptied |-> FALSE, lostAt |-> -1, startTime |-> -1, startedAt |-> -1]

\* Observer's fields of a session, read by the properties only:
\*   busyAtSubmit  another submission of the conversation was STREAMING when
\*                 this one was made
\*   atLimit       the submitter had used up the plan's messages then
\*   invoked       openai.chat.completions.create has been called
\*   roomEmptied   the last member of the room disconnected while this
\*                 submission was STREAMING
\*   lostAt        the number of chunks forwarded when the submitter's
\*                 connection disconnected while this submission was
\*                 STREAMING (-1: it did not)
\*   startedAt     the clock when this submission became STREAMING, while
\*                 it is (-1 otherwise)
\* startTime is the HTTP handler's `const startTime = Date.now()`.

\* Submissions take the session slots in order.
FreeSlot(s) ==
  /\ sess[s].pc = "idle"
  /\ \A t \in Sessions : t < s => sess[t].pc # "idle"

\* A submission is STREAMING from its ai-typing-start to its terminal event.
Streaming(s) ==
  \/ sess[s].pc = "stream"
  \/ sess[s].path = "http" /\ sess[s].pc = "usageSave"

StreamingOn(c) == {s \in Sessions : Streaming(s) /\ sess[s].conv = c}

Init ==
  /\ socketUser = [k \in Sockets |-> NoUser]
  /\ activeUsers = [u \in Users |-> NoSock]
  /\ userSockets = {}
  /\ rooms = [c \in RoomIds |-> {}]
  /\ typingUsers = [c \in Convs |-> {}]
  /\ inbox = [k \in Sockets |-> << >>]
  /\ store = [c \in Convs |-> EmptyDoc]
  /\ usage \in [Users -> {FreeLimit - 1, FreeLimit}]
  /\ sess = [s \in Sessions |-> IdleSession]
  /\ now = 0
  /\ lastNotify = NoNotify
  /\ subscription = [u \in Users |-> FreeSubscription]
  /\ typedAt = [c \in Convs |-> [u \in Users |-> -1]]

(* ------------------- socket path: `stream-message` -------------------- *)

\* part of the record a finished submission keeps
Finish(r, outcome) ==
  [r EXCEPT !.pc = "done", !.res = outcome, !.doc = NoDoc, !.reqUsage = 0,
            !.yields = 0, !.startTime = -1, !.startedAt = -1]

\* socket.on('stream-message') up to the settled Conversation.findOne:
\* no guard on a running stream, no quota check.
SocketStreamMessage(s, k, c, m) ==
  /\ FreeSlot(s)
  /\ socketUser[k] # NoUser
  /\ LET r0 == [IdleSession EXCEPT !.path = "socket", !.sock = k,
                  !.sockLive = TRUE, !.user = socketUser[k], !.conv = c,
                  !.text = m,
                  !.busyAtSubmit = (StreamingOn(c) # {}),
                  !.atLimit = (usage[socketUser[k]]
                                 >= Limits[subscription[socketUser[k]].paidPlan])]
     IN IF ConvOwner[c] = socketUser[k]
        THEN /\ sess' = [sess EXCEPT ![s] =
                           [r0 EXCEPT !.pc = "addUser", !.doc = LoadDoc(c)]]
             /\ inbox' = inbox
        ELSE /\ sess' = [sess EXCEPT ![s] = Finish(r0, "notfound")]
             /\ inbox' = Deliver(inbox, {k},
                   SocketError("Conversation not found or access denied", s))
  /\ UNCHANGED <<subscription, typedAt, lastNotify, socketUser, activeUsers, userSockets, rooms, typingUsers,
                 store, usage, now>>

\* The user message is saved; the continuation emits `message-sent` to the
\* room, calls streamAIResponse, which emits `ai-typing-start` to the room
\* except the submitter and invokes the provider.
SocketAddUserMessageOk(s) ==
  /\ sess[s].pc = "addUser" /\ sess[s].path = "socket"
  /\ LET r == sess[s]
         c == r.conv
         d == AddMessage(r.doc, "user", r.text, 0, 0, FALSE, s)
     IN /\ Valid(d)
        /\ store' = SavedStore(c, d)
        /\ inbox' = Deliver(
                      Deliver(inbox, IoTo(c), MessageSent(c, r.text, r.user, s)),
                      SocketTo(r.sock, c), AiTypingStart(c, s))
        /\ sess' = [sess EXCEPT ![s] =
                      [r EXCEPT !.pc = "stream", !.doc = AfterSave(d),
                                !.invoked = TRUE, !.startedAt = now]]
  /\ UNCHANGED <<subscription, typedAt, lastNotify, socketUser, activeUsers, userSockets, rooms, typingUsers,
                 usage, now>>

\* A handler that does not wait for the save of the user message: the write
\* fails and the stream is started all the same.
SocketAddUserMessageFail_NotAwaited(s) ==
  /\ sess[s].pc = "addUser" /\ sess[s].path = "socket"
  /\ inbox' = Deliver(
                Deliver(inbox, IoTo(sess[s].conv),
                        MessageSent(sess[s].conv, sess[s].text, sess[s].user, s)),
                SocketTo(sess[s].sock, sess[s].conv),
                AiTypingStart(sess[s].conv, s))
  /\ sess' = [sess EXCEPT ![s] =
                [sess[s] EXCEPT !.pc = "stream", !.invoked = TRUE,
                                !.startedAt = now]]
  /\ UNCHANGED <<subscription, typedAt, lastNotify, socketUser, activeUsers, userSockets, rooms, typingUsers,
                 store, usage, now>>

\* The save of the user message rejects: the handler's catch reports to the
\* submitter only.
SocketAddUserMessageFail(s) ==
  /\ sess[s].pc = "addUser" /\ sess[s].path = "socket"
  /\ sess' = [sess EXCEPT ![s] = Finish(sess[s], "persistfail")]
  /\ inbox' = Deliver(inbox, SocketEmit(s),
                      SocketError("Failed to process message", s))
  /\ UNCHANGED <<subscription, typedAt, lastNotify, socketUser, activeUsers, userSockets, rooms, typingUsers,
                 store, usage, now>>

\* An iteration that forwards the chunk to the room only while the
\* submitter's connection is alive.
SocketStreamChunk_BoundToSocket(s, text) ==
  /\ sess[s].pc = "stream" /\ sess[s].path = "socket"
  /\ sess[s].yields < MaxChunks
  /\ IF text # ""
     THEN /\ sess' = [sess EXCEPT ![s] =
               [sess[s] EXCEPT !.fullResponse = sess[s].fullResponse \o text,
                               !.tokenCount = sess[s].tokenCount + 1,
                               !.yields = sess[s].yields + 1]]
          /\ inbox' = IF sess[s].sockLive
                      THEN Deliver(inbox, {sess[s].sock} \cup rooms[sess[s].conv],
                                   AiStreamChunk(sess[s].conv, text, s))
                      ELSE inbox
     ELSE /\ sess' = [sess EXCEPT ![s] = [sess[s] EXCEPT !.yields = sess[s].yields + 1]]
          /\ inbox' = inbox
  /\ UNCHANGED <<subscription, typedAt, lastNotify, socketUser, activeUsers, userSockets, rooms, typingUsers,
                 store, usage, now>>

\* One iteration of `for await (const chunk of stream)`.
SocketStreamChunk(s, text) ==
  /\ sess[s].pc = "stream" /\ sess[s].path = "socket"
  /\ sess[s].yields < MaxChunks
  /\ LET r == sess[s]
         c == r.conv
     IN IF text # ""
        THEN /\ sess' = [sess EXCEPT ![s] =
                  [r EXCEPT !.fullResponse = r.fullResponse \o text,
                            !.tokenCount = r.tokenCount + 1,
                            !.yields = r.yields + 1]]
             /\ inbox' = Deliver(
                           Deliver(inbox, SocketEmit(s), AiStreamChunk(c, text, s)),
                           SocketTo(r.sock, c), AiStreamChunk(c, text, s))
        ELSE /\ sess' = [sess EXCEPT ![s] = [r EXCEPT !.yields = r.yields + 1]]
             /\ inbox' = inbox
  /\ UNCHANGED <<subscription, typedAt, lastNotify, socketUser, activeUsers, userSockets, rooms, typingUsers,
                 store, usage, now>>

\* The stream ended and the assistant message is saved: `ai-stream-complete`
\* to the submitter, then to the room except the submitter (two payloads,
\* each with its own `new Date()`), `ai-typing-stop` to the room except the
\* submitter; then User.findById is awaited.  The message's processingTime
\* is `Date.now() - Date.now()`, two reads of the clock, the left one first.
SocketStreamEndOk(s) ==
  /\ sess[s].pc = "stream" /\ sess[s].path = "socket"
  /\ LET r == sess[s]
         c == r.conv
     IN /\ \E p1 \in ClockReads(now) : \E p2 \in ClockReads(p1) :
           \E ts1 \in ClockReads(p2) : \E ts2 \in ClockReads(ts1) :
             /\ LET d == AddMessage(r.doc, "assistant", r.fullResponse,
                                    r.tokenCount, p1 - p2, FALSE, s)
                IN Valid(d) /\ store' = SavedStore(c, d)
             /\ now' = ts2
             /\ inbox' =
                  Deliver(
                    Deliver(
                      Deliver(inbox, SocketEmit(s),
                        AiStreamComplete(c, r.fullResponse, ts1, r.tokenCount, s)),
                      SocketTo(r.sock, c),
                      AiStreamComplete(c, r.fullResponse, ts2, r.tokenCount, s)),
                    SocketTo(r.sock, c), AiTypingStop(c, s))
        /\ sess' = [sess EXCEPT ![s] =
                      [r EXCEPT !.pc = "usageFind", !.doc = NoDoc,
                                !.startedAt = -1]]
  /\ UNCHANGED <<subscription, typedAt, lastNotify, socketUser, activeUsers, userSockets, rooms, typingUsers, usage>>

\* streamAIResponse's catch: `ai-stream-error` to the submitter only,
\* `ai-typing-stop` to the room except the submitter; nothing is persisted.
SocketCatch(s, outcome) ==
  /\ sess' = [sess EXCEPT ![s] = Finish(sess[s], outcome)]
  /\ inbox' = Deliver(
                Deliver(inbox, SocketEmit(s), AiStreamError(sess[s].conv, s)),
                SocketTo(sess[s].sock, sess[s].conv),
                AiTypingStop(sess[s].conv, s))
  /\ UNCHANGED <<subscription, typedAt, lastNotify, socketUser, activeUsers, userSockets, rooms, typingUsers,
                 store, usage, now>>

\* The stream ended and the save of the assistant message rejects.
SocketStreamEndFail(s) ==
  /\ sess[s].pc = "stream" /\ sess[s].path = "socket"
  /\ SocketCatch(s, "replyfail")

\* The provider call or the stream throws.
SocketStreamError(s) ==
  /\ sess[s].pc = "stream" /\ sess[s].path = "socket"
  /\ SocketCatch(s, "failed")

\* User.findById settles: user.incrementUsage(1, tokenCount) on the loaded
\* document, then user.save() is awaited.
SocketUsageFind(s) ==
  /\ sess[s].pc = "usageFind" /\ sess[s].path = "socket"
  /\ sess' = [sess EXCEPT ![s] =
                [sess[s] EXCEPT !.pc = "usageSave",
                                !.reqUsage = usage[sess[s].user] + 1]]
  /\ UNCHANGED <<subscription, typedAt, lastNotify, socketUser, activeUsers, userSockets, rooms, typingUsers,
                 inbox, store, usage, now>>

SocketUsageSaveOk(s) ==
  /\ sess[s].pc = "usageSave" /\ sess[s].path = "socket"
  /\ usage' = [usage EXCEPT ![sess[s].user] = sess[s].reqUsage]
  /\ sess' = [sess EXCEPT ![s] = Finish(sess[s], "ok")]
  /\ UNCHANGED <<subscription, typedAt, lastNotify, socketUser, activeUsers, userSockets, rooms, typingUsers,
                 inbox, store, now>>

\* User.findById or user.save() rejects inside streamAIResponse's try.
SocketUsageFail(s) ==
  /\ sess[s].pc \in {"usageFind", "usageSave"} /\ sess[s].path = "socket"
  /\ SocketCatch(s, "usagefail")

(* ------------- HTTP path: POST /conversations/:id/messages ------------ *)

\* userSchema.methods.canSendMessage: the limit of subscription.plan,
\* whatever subscription.status is.
CanSendMessage(plan, n) == n < Limits[plan]

\* requireAuth loads req.user, checkMessageLimit answers 429 when the plan's
\* limit is reached, then the handler awaits Conversation.findOne and
\* answers 404 when the user owns no such conversation.
HttpSendMessage(s, u, c, m) ==
  /\ FreeSlot(s)
  /\ LET r0 == [IdleSession EXCEPT !.path = "http", !.user = u, !.conv = c,
                  !.text = m, !.busyAtSubmit = (StreamingOn(c) # {}),
                  !.atLimit = (usage[u] >= Limits[subscription[u].paidPlan])]
     IN sess' = [sess EXCEPT ![s] =
          IF ~CanSendMessage(subscription[u].plan, usage[u])
          THEN Finish(r0, "quota")
          ELSE IF ConvOwner[c] # u THEN Finish(r0, "notfound")
          ELSE [r0 EXCEPT !.pc = "addUser", !.doc = LoadDoc(c),
                          !.reqUsage = usage[u], !.startTime = now]]
  /\ UNCHANGED <<subscription, typedAt, lastNotify, socketUser, activeUsers, userSockets, rooms, typingUsers,
                 inbox, store, usage, now>>

\* The user message is saved; `message-sent` and `ai-typing-start` go to the
\* whole room and the provider is invoked.
HttpAddUserMessageOk(s) ==
  /\ sess[s].pc = "addUser" /\ sess[s].path = "http"
  /\ LET r == sess[s]
         c == r.conv
         d == AddMessage(r.doc, "user", r.text, 0, 0, FALSE, s)
     IN /\ Valid(d)
        /\ store' = SavedStore(c, d)
        /\ inbox' = Deliver(
                      Deliver(inbox, IoTo(c), MessageSent(c, r.text, r.user, s)),
                      IoTo(c), AiTypingStart(c, s))
        /\ sess' = [sess EXCEPT ![s] =
                      [r EXCEPT !.pc = "stream", !.doc = AfterSave(d),
                                !.invoked = TRUE, !.startedAt = now]]
  /\ UNCHANGED <<subscription, typedAt, lastNotify, socketUser, activeUsers, userSockets, rooms, typingUsers,
                 usage, now>>

\* The handler's catch, entered with the local document `d`: `ai-stream-error`
\* and `ai-typing-stop` to the whole room, then the failure-marked assistant
\* message is pushed and its save awaited.
HttpCatch(s, d) ==
  /\ sess' = [sess EXCEPT ![s] =
                [sess[s] EXCEPT !.pc = "errSave", !.startTime = -1,
                   !.startedAt = -1,
                   !.doc = AddMessage(d, "assistant", ErrorReply, 0,
                                      now - sess[s].startTime, TRUE, s)]]
  /\ inbox' = Deliver(
                Deliver(inbox, IoTo(sess[s].conv), AiStreamError(sess[s].conv, s)),
                IoTo(sess[s].conv), AiTypingStop(sess[s].conv, s))
  /\ UNCHANGED <<subscription, typedAt, lastNotify, socketUser, activeUsers, userSockets, rooms, typingUsers,
                 store, usage, now>>

\* The save of the user message rejects (the push stays in the document).
HttpAddUserMessageFail(s) ==
  /\ sess[s].pc = "addUser" /\ sess[s].path = "http"
  /\ HttpCatch(s, AddMessage(sess[s].doc, "user", sess[s].text, 0, 0, FALSE, s))

\* One iteration of `for await (const chunk of completion)`.
HttpStreamChunk(s, text) ==
  /\ sess[s].pc = "stream" /\ sess[s].path = "http"
  /\ sess[s].yields < MaxChunks
  /\ LET r == sess[s]
     IN IF text # ""
        THEN /\ sess' = [sess EXCEPT ![s] =
                  [r EXCEPT !.fullResponse = r.fullResponse \o text,
                            !.tokenCount = r.tokenCount + 1,
                            !.yields = r.yields + 1]]
             /\ inbox' = Deliver(inbox, IoTo(r.conv), AiStreamChunk(r.conv, text, s))
        ELSE /\ sess' = [sess EXCEPT ![s] = [r EXCEPT !.yields = r.yields + 1]]
             /\ inbox' = inbox
  /\ UNCHANGED <<subscription, typedAt, lastNotify, socketUser, activeUsers, userSockets, rooms, typingUsers,
                 store, usage, now>>

\* The stream ended and the assistant message is saved with processingTime
\* `Date.now() - startTime`; updateUsage bumps
\* req.user.usage.messagesThisMonth and awaits req.user.save().
HttpStreamEndOk(s) ==
  /\ sess[s].pc = "stream" /\ sess[s].path = "http"
  /\ LET r == sess[s]
         d == AddMessage(r.doc, "assistant", r.fullResponse, r.tokenCount,
                         now - r.startTime, FALSE, s)
     IN /\ Valid(d)
        /\ store' = SavedStore(r.conv, d)
        /\ sess' = [sess EXCEPT ![s] =
                      [r EXCEPT !.pc = "usageSave", !.doc = NoDoc,
                                !.reqUsage = r.reqUsage + 1,
                                !.startTime = -1, !.startedAt = -1]]
  /\ UNCHANGED <<subscription, typedAt, lastNotify, socketUser, activeUsers, userSockets, rooms, typingUsers,
                 inbox, usage, now>>

HttpStreamEndFail(s) ==
  /\ sess[s].pc = "stream" /\ sess[s].path = "http"
  /\ HttpCatch(s, AddMessage(sess[s].doc, "assistant", sess[s].fullResponse,
                             sess[s].tokenCount, now - sess[s].startTime,
                             FALSE, s))

HttpStreamError(s) ==
  /\ sess[s].pc = "stream" /\ sess[s].path = "http"
  /\ HttpCatch(s, sess[s].doc)

\* req.user.save() settles (updateUsage swallows a rejection); then
\* `ai-stream-complete` and `ai-typing-stop` go to the whole room and the
\* request is answered 200.
HttpUsageSave(s, saved) ==
  /\ sess[s].pc = "usageSave" /\ sess[s].path = "http"
  /\ LET r == sess[s]
     IN /\ usage' = IF saved THEN [usage EXCEPT ![r.user] = r.reqUsage] ELSE usage
        /\ \E ts \in ClockReads(now) :
             /\ now' = ts
             /\ inbox' = Deliver(
                           Deliver(inbox, IoTo(r.conv),
                             AiStreamComplete(r.conv, r.fullResponse, ts,
                                              r.tokenCount, s)),
                           IoTo(r.conv), AiTypingStop(r.conv, s))
        /\ sess' = [sess EXCEPT ![s] = Finish(r, "ok")]
  /\ UNCHANGED <<subscription, typedAt, lastNotify, socketUser, activeUsers, userSockets, rooms, typingUsers, store>>

\* The save of the failure-marked message settles and the handler answers
\* 500; when it rejects, asyncHandler passes the error to the error
\* middleware instead.
HttpErrSaveOk(s) ==
  /\ sess[s].pc = "errSave" /\ sess[s].path = "http"
  /\ Valid(sess[s].doc)
  /\ store' = SavedStore(sess[s].conv, sess[s].doc)
  /\ sess' = [sess EXCEPT ![s] = Finish(sess[s], "error500")]
  /\ UNCHANGED <<subscription, typedAt, lastNotify, socketUser, activeUsers, userSockets, rooms, typingUsers,
                 inbox, usage, now>>

HttpErrSaveFail(s) ==
  /\ sess[s].pc = "errSave" /\ sess[s].path = "http"
  /\ sess' = [sess EXCEPT ![s] = Finish(sess[s], "unhandled")]
  /\ UNCHANGED <<subscription, typedAt, lastNotify, socketUser, activeUsers, userSockets, rooms, typingUsers,
                 inbox, store, usage, now>>

(* ------------------- connections, rooms and typing -------------------- *)
\* Events that stem from no submission carry sid 0.  `had` on typing-stopped
\* is the observer's note of whether the user had a typing entry in the
\* conversation when the handler ran, `via` the handler that emitted it.
\* The personal room `user:<id>` a connection joins is never emitted to and
\* is left out; usernames are a function of the user id.

Connected(u) == [ev |-> "connected", userId |-> u, sid |-> 0]

JoinedConversation(c) == [ev |-> "joined-conversation", conversationId |-> c, sid |-> 0]

TypingStartEvent(c, u) ==
  [ev |-> "typing-start", conversationId |-> c, userId |-> u, sid |-> 0]

TypingStopped(c, u, via, had) ==
  [ev |-> "typing-stopped", conversationId |-> c, userId |-> u, sid |-> 0,
   via |-> via, had |-> had]

Notification(from) == [ev |-> "notification", from |-> from, sid |-> 0]

\* Every connection has room for one more event (bound of the model).
InboxRoom == \A k \in Sockets : Len(inbox[k]) < MaxInbox

\* io.on('connection'): a new connection of user u takes the free slot k.
\* activeUsers keeps one socket id per user: a second connection of the user
\* overwrites the first.
Connect(k, u) ==
  /\ socketUser[k] = NoUser
  /\ \A s \in Sessions : sess[s].sock = k => sess[s].pc = "done"
  /\ socketUser' = [socketUser EXCEPT ![k] = u]
  /\ activeUsers' = [activeUsers EXCEPT ![u] = k]
  /\ userSockets' = userSockets \cup {k}
  /\ inbox' = [inbox EXCEPT ![k] = << Connected(u) >>]
  /\ UNCHANGED <<subscription, typedAt, lastNotify, rooms, typingUsers, store, usage, sess, now>>

\* The orders in which typingUsers.forEach can visit the conversations of S
\* (the Map's insertion order, which the model does not keep).
Orders(S) ==
  {q \in [1..Cardinality(S) -> S] :
     \A i, j \in 1..Cardinality(S) : i # j => q[i] # q[j]}

\* A disconnect that tells nobody.
EmitTypingStopped_Nobody(inb, q, u, members) == inb

RECURSIVE EmitTypingStopped(_, _, _, _)
\* io.to(`conversation:${c}`).emit('typing-stopped') for each c of q in turn,
\* to the members in `members`.
EmitTypingStopped(inb, q, u, members) ==
  IF q = << >> THEN inb
  ELSE EmitTypingStopped(
         Deliver(inb, members[Head(q)], TypingStopped(Head(q), u, "disconnect", TRUE)),
         Tail(q), u, members)

\* socket.on('disconnect'): Socket.IO has taken the socket out of all its
\* rooms before the handler runs.  The handler deletes the user's entry of
\* activeUsers whichever socket it names, and the user from every typing set,
\* telling each of those rooms.  The submissions the socket made keep
\* running.
Disconnect(k) ==
  /\ socketUser[k] # NoUser
  /\ LET u == socketUser[k]
         left == [c \in RoomIds |-> rooms[c] \ {k}]
         typed == {c \in Convs : u \in typingUsers[c]}
         gone == [inbox EXCEPT ![k] = << >>]
     IN /\ rooms' = left
        /\ socketUser' = [socketUser EXCEPT ![k] = NoUser]
        /\ activeUsers' = [activeUsers EXCEPT ![u] = NoSock]
        /\ userSockets' = userSockets \ {k}
        /\ typingUsers' = [c \in Convs |-> typingUsers[c] \ {u}]
        /\ typedAt' = [c \in Convs |-> [typedAt[c] EXCEPT ![u] = -1]]
        /\ \E q \in Orders(typed) :
             inbox' = EmitTypingStopped(gone, [i \in 1..Cardinality(typed) |-> q[i]],
                                        u, left)
        /\ sess' = [s \in Sessions |->
             [sess[s] EXCEPT
                !.sockLive = IF sess[s].sock = k THEN FALSE ELSE @,
                !.lostAt = IF sess[s].sock = k /\ Streaming(s)
                           THEN sess[s].tokenCount ELSE @,
                !.roomEmptied =
                   IF Streaming(s) /\ rooms[sess[s].conv] # {}
                                   /\ left[sess[s].conv] = {}
                   THEN TRUE ELSE @]]
  /\ UNCHANGED <<subscription, lastNotify, store, usage, now>>

\* socket.on('join-conversation'): no check that the user may see it.
JoinConversation(k, c) ==
  /\ socketUser[k] # NoUser
  /\ InboxRoom
  /\ rooms' = [rooms EXCEPT ![c] = rooms[c] \cup {k}]
  /\ inbox' = Deliver(inbox, {k}, JoinedConversation(c))
  /\ UNCHANGED <<subscription, typedAt, lastNotify, socketUser, activeUsers, userSockets, typingUsers,
                 store, usage, sess, now>>

\* A leave that takes the socket out of the room and keeps the typing entry.
LeaveConversation_KeepsTyping(k, c) ==
  /\ socketUser[k] # NoUser
  /\ InboxRoom
  /\ rooms' = [rooms EXCEPT ![c] = rooms[c] \ {k}]
  /\ UNCHANGED <<subscription, typedAt, lastNotify, socketUser, activeUsers, userSockets, typingUsers,
                 inbox, store, usage, sess, now>>

\* socket.on('leave-conversation'): when the conversation has a typing set
\* (some user is typing in it) the user is deleted from it and
\* `typing-stopped` goes to the room except the socket.
LeaveConversation(k, c) ==
  /\ socketUser[k] # NoUser
  /\ InboxRoom
  /\ LET u == socketUser[k]
     IN /\ rooms' = [rooms EXCEPT ![c] = rooms[c] \ {k}]
        /\ IF typingUsers[c] # {}
           THEN /\ typingUsers' = [typingUsers EXCEPT ![c] = typingUsers[c] \ {u}]
                /\ typedAt' = [typedAt EXCEPT ![c][u] = -1]
                /\ inbox' = Deliver(inbox, rooms[c] \ {k},
                               TypingStopped(c, u, "leave", u \in typingUsers[c]))
           ELSE UNCHANGED <<typingUsers, typedAt, inbox>>
  /\ UNCHANGED <<subscription, lastNotify, socketUser, activeUsers, userSockets, store,
                 usage, sess, now>>

\* socket.on('typing-start'): no check that the socket is in the room.
TypingStart(k, c) ==
  /\ socketUser[k] # NoUser
  /\ InboxRoom
  /\ typingUsers' = [typingUsers EXCEPT ![c] = typingUsers[c] \cup {socketUser[k]}]
  /\ inbox' = Deliver(inbox, SocketTo(k, c), TypingStartEvent(c, socketUser[k]))
  /\ typedAt' = [typedAt EXCEPT ![c][socketUser[k]] = now]
  /\ UNCHANGED <<subscription, lastNotify, socketUser, activeUsers, userSockets, rooms,
                 store, usage, sess, now>>

\* socket.on('typing-stop'): guarded by the conversation having a typing set,
\* not by the user being in it.
TypingStop(k, c) ==
  /\ socketUser[k] # NoUser
  /\ InboxRoom
  /\ LET u == socketUser[k]
     IN IF typingUsers[c] # {}
        THEN /\ typingUsers' = [typingUsers EXCEPT ![c] = typingUsers[c] \ {u}]
             /\ typedAt' = [typedAt EXCEPT ![c][u] = -1]
             /\ inbox' = Deliver(inbox, SocketTo(k, c),
                            TypingStopped(c, u, "typing-stop", u \in typingUsers[c]))
        ELSE UNCHANGED <<typingUsers, typedAt, inbox>>
  /\ UNCHANGED <<subscription, lastNotify, socketUser, activeUsers, userSockets, rooms,
                 store, usage, sess, now>>

\* POST /notify/:userId by the authenticated user `from`: 404 when
\* activeUsers has no socket id for the target, else the notification goes to
\* that one socket and the answer is 200.
Notify(from, u) ==
  /\ InboxRoom
  /\ LET targetSocketId == activeUsers[u]
         handles == {k \in Sockets : socketUser[k] = u}
     IN IF targetSocketId = NoSock
        THEN /\ lastNotify' = [to |-> u, status |-> 404, handles |-> handles,
                               got |-> {}]
             /\ inbox' = inbox
        ELSE /\ lastNotify' = [to |-> u, status |-> 200, handles |-> handles,
                               got |-> {targetSocketId} \cap userSockets]
             /\ inbox' = Deliver(inbox, {targetSocketId} \cap userSockets,
                                 Notification(from))
  /\ UNCHANGED <<subscription, typedAt, socketUser, activeUsers, userSockets, rooms,
                 typingUsers, store, usage, sess, now>>

(* ----------------------------- subscription ---------------------------- *)
\* subscription.paidPlan is the observer's field: the plan of the user's
\* last payment that succeeded ("free" when there is none).

\* POST /subscription/create-checkout-session when Konnect accepts the
\* payment request: the user's subscription is replaced by the chosen plan
\* with status 'pending' and saved.  (When Konnect refuses, nothing changes.)
CreateCheckoutSession(u, plan) ==
  /\ subscription' = [subscription EXCEPT ![u] =
                        [plan |-> plan, status |-> "pending",
                         konnectOrderId |-> OrderOf(u),
                         paidPlan |-> subscription[u].paidPlan]]
  /\ UNCHANGED <<typedAt, lastNotify, socketUser, activeUsers, userSockets, rooms,
                 typingUsers, inbox, store, usage, sess, now>>

\* POST /subscription/webhook with a valid signature, for an order some user
\* holds: SUCCESS sets the status 'active', FAILED sets it 'failed'; the plan
\* stays what the checkout wrote.
Webhook(orderId, status) ==
  /\ \E u \in Users :
       /\ subscription[u].konnectOrderId = orderId
       /\ subscription' = [subscription EXCEPT ![u] =
            IF status = "SUCCESS"
            THEN [subscription[u] EXCEPT !.status = "active",
                                         !.paidPlan = subscription[u].plan]
            ELSE [subscription[u] EXCEPT !.status = "failed"]]
  /\ UNCHANGED <<typedAt, lastNotify, socketUser, activeUsers, userSockets, rooms,
                 typingUsers, inbox, store, usage, sess, now>>

(* ------------------------------- client -------------------------------- *)
\* What a handler is called with: a string, or the object a client wrapped
\* the id in.
StringArg(c) == [kind |-> "string", value |-> c]
ObjectArg(c) == [kind |-> "object", conversationId |-> c]

\* `${arg}` in a template literal: a string as it is, an object as
\* "[object Object]".
TemplateString(arg) == IF arg.kind = "string" THEN arg.value ELSE ObjectString

\* typingUsers.get(arg): the map's keys are the id strings typing-start
\* stored, so an object finds nothing.
TypingEntry(arg) == IF arg.kind = "string" THEN typingUsers[arg.value] ELSE {}

\* SocketClient.joinConversation(c) emits 'join-conversation' with the
\* object { conversationId: c }; the server's handler takes its argument for
\* the id: it joins `conversation:${arg}` and echoes the argument.
ClientJoinConversation(k, c) ==
  /\ socketUser[k] # NoUser
  /\ InboxRoom
  /\ LET arg == ObjectArg(c)
     IN /\ rooms' = [rooms EXCEPT ![TemplateString(arg)] = @ \cup {k}]
        /\ inbox' = Deliver(inbox, {k},
                       [ev |-> "joined-conversation", conversationId |-> arg,
                        sid |-> 0])
  /\ UNCHANGED <<subscription, typedAt, lastNotify, socketUser, activeUsers, userSockets,
                 typingUsers, store, usage, sess, now>>

\* SocketClient.leaveConversation(c) emits 'leave-conversation' with the
\* object { conversationId: c }: the server leaves `conversation:${arg}` and
\* looks the argument up in typingUsers.
ClientLeaveConversation(k, c) ==
  /\ socketUser[k] # NoUser
  /\ InboxRoom
  /\ LET arg == ObjectArg(c)
         u == socketUser[k]
     IN /\ rooms' = [rooms EXCEPT ![TemplateString(arg)] = @ \ {k}]
        /\ IF TypingEntry(arg) # {}
           THEN /\ typingUsers' = [typingUsers EXCEPT ![c] = typingUsers[c] \ {u}]
                /\ typedAt' = [typedAt EXCEPT ![c][u] = -1]
                /\ inbox' = Deliver(inbox, rooms[TemplateString(arg)] \ {k},
                               TypingStopped(c, u, "leave", u \in typingUsers[c]))
           ELSE UNCHANGED <<typingUsers, typedAt, inbox>>
  /\ UNCHANGED <<subscription, lastNotify, socketUser, activeUsers, userSockets, store,
                 usage, sess, now>>

\* Time passes, up to the model's limit.
Tick(limit) ==
  /\ now < limit
  /\ now' = now + 1
  /\ UNCHANGED <<subscription, typedAt, lastNotify, socketUser, activeUsers, userSockets,
                 rooms, typingUsers, inbox, store, usage, sess>>

(* --------------------------- specification ---------------------------- *)

\* A topology the server can be in after some connects and joins.
Topology ==
  /\ socketUser \in [Sockets -> Users \cup {NoUser}]
  /\ userSockets = {k \in Sockets : socketUser[k] # NoUser}
  /\ activeUsers \in [Users -> Sockets \cup {NoSock}]
  /\ \A u \in Users :
       IF \E k \in Sockets : socketUser[k] = u
       THEN activeUsers[u] # NoSock /\ socketUser[activeUsers[u]] = u
       ELSE activeUsers[u] = NoSock
  /\ rooms \in [RoomIds -> SUBSET userSockets]

StreamInit ==
  /\ Topology
  /\ socketUser["A"] = "u1" /\ socketUser["B"] = "u2"
  /\ activeUsers["u1"] = "A"
  /\ \A c \in RoomIds \ StreamConvs : rooms[c] = {}
  /\ typingUsers = [c \in Convs |-> {}]
  /\ inbox = [k \in Sockets |-> << >>]
  /\ store = [c \in Convs |-> EmptyDoc]
  /\ usage \in [Users -> {FreeLimit - 1, FreeLimit}]
  /\ usage["u2"] = FreeLimit - 1
  /\ sess = [s \in Sessions |-> IdleSession]
  /\ now = 0
  /\ lastNotify = NoNotify
  /\ subscription = [u \in Users |-> FreeSubscription]
  /\ typedAt = [c \in Convs |-> [u \in Users |-> -1]]

\* One step of submission s.
SessionStep(s) ==
  \/ \E k \in Sockets, c \in StreamConvs, m \in UserTexts :
       SocketStreamMessage(s, k, c, m)
  \/ SocketAddUserMessageOk(s)
  \/ SocketAddUserMessageFail(s)
  \/ \E text \in Deltas(sess[s].yields + 1) : SocketStreamChunk(s, text)
  \/ SocketStreamEndOk(s)
  \/ SocketStreamEndFail(s)
  \/ SocketStreamError(s)
  \/ SocketUsageFind(s)
  \/ SocketUsageSaveOk(s)
  \/ SocketUsageFail(s)
  \/ \E u \in Users, c \in StreamConvs, m \in UserTexts :
       HttpSendMessage(s, u, c, m)
  \/ HttpAddUserMessageOk(s)
  \/ HttpAddUserMessageFail(s)
  \/ \E text \in Deltas(sess[s].yields + 1) : HttpStreamChunk(s, text)
  \/ HttpStreamEndOk(s)
  \/ HttpStreamEndFail(s)
  \/ HttpStreamError(s)
  \/ \E saved \in BOOLEAN : HttpUsageSave(s, saved)
  \/ HttpErrSaveOk(s)
  \/ HttpErrSaveFail(s)

Next == \E s \in Sessions : SessionStep(s)

Spec == StreamInit /\ [][Next]_vars

\* The server's connection handlers and the notify route, from the state
\* after construction, with no submission made.
PresenceNext ==
  \/ \E k \in Sockets, u \in Users : Connect(k, u)
  \/ \E k \in Sockets : Disconnect(k)
  \/ \E k \in Sockets, c \in Convs : JoinConversation(k, c)
  \/ \E k \in Sockets, c \in Convs : LeaveConversation(k, c)
  \/ \E k \in Sockets, c \in Convs : TypingStart(k, c)
  \/ \E k \in Sockets, c \in Convs : TypingStop(k, c)
  \/ \E from \in Users, u \in Users : Notify(from, u)

\* The handlers of PresenceNext read no usage counter: one value is enough.
PresenceInit == Init /\ usage = [u \in Users |-> FreeLimit - 1]

PresenceSpec == PresenceInit /\ [][PresenceNext]_vars

\* Two connected users who join, leave and type in a conversation while time
\* passes.  The server sets no timer: nothing but a client's event changes
\* the typing map.
TypingInit == StreamInit /\ usage["u1"] = FreeLimit - 1

TypingNext ==
  \/ \E k \in Sockets, c \in StreamConvs : JoinConversation(k, c)
  \/ \E k \in Sockets, c \in StreamConvs : LeaveConversation(k, c)
  \/ \E k \in Sockets, c \in StreamConvs : TypingStart(k, c)
  \/ \E k \in Sockets, c \in StreamConvs : TypingStop(k, c)
  \/ \E k \in Sockets : Disconnect(k)
  \/ Tick(MaxTime)

\* Time goes on whatever the clients do.
TypingSpec == TypingInit /\ [][TypingNext]_vars /\ WF_vars(Tick(MaxTime))

\* One submission while time passes.
TimeNext == SessionStep(1) \/ Tick(MaxClock)

TimeSpec == StreamInit /\ [][TimeNext]_vars

\* One submission while the owner of the conversation buys a plan.
BillingUsers == {"u1"}

BillingNext ==
  \/ SessionStep(1)
  \/ \E u \in BillingUsers, plan \in PaidPlans : CreateCheckoutSession(u, plan)
  \/ \E u \in BillingUsers, status \in {"SUCCESS", "FAILED"} :
       Webhook(OrderOf(u), status)

BillingSpec == StreamInit /\ [][BillingNext]_vars

\* Connections that join and leave through SocketClient.
ClientNext ==
  \/ \E k \in Sockets, u \in Users : Connect(k, u)
  \/ \E k \in Sockets : Disconnect(k)
  \/ \E k \in Sockets, c \in Convs : ClientJoinConversation(k, c)
  \/ \E k \in Sockets, c \in Convs : ClientLeaveConversation(k, c)
  \/ \E k \in Sockets, c \in Convs : TypingStart(k, c)
  \/ \E k \in Sockets, c \in Convs : TypingStop(k, c)

ClientSpec == PresenceInit /\ [][ClientNext]_vars

\* One submission while connections drop: the steps of submission 1 and the
\* disconnect handler, from the topologies of StreamInit.
CancelNext ==
  \/ SessionStep(1)
  \/ \E k \in Sockets : Disconnect(k)

CancelSpec == StreamInit /\ [][CancelNext]_vars

\* The steps of submission s that run when a database operation settles.
\* mongoose.connect sets serverSelectionTimeoutMS and socketTimeoutMS, so
\* every database operation settles; the provider call has no timeout.
DbSettles(s) ==
  \/ SocketAddUserMessageOk(s)
  \/ SocketAddUserMessageFail(s)
  \/ SocketUsageFind(s)
  \/ SocketUsageSaveOk(s)
  \/ SocketUsageFail(s)
  \/ HttpAddUserMessageOk(s)
  \/ HttpAddUserMessageFail(s)
  \/ \E saved \in BOOLEAN : HttpUsageSave(s, saved)
  \/ HttpErrSaveOk(s)
  \/ HttpErrSaveFail(s)

\* CancelSpec where the database always answers; nothing is assumed of the
\* provider, which may stall.
LiveSpec == CancelSpec /\ WF_vars(DbSettles(1))

(* ----------------------------- observations --------------------------- *)

\* The events of submission s among a sequence of delivered events.
OfSession(seq, s) ==
  LET Test(e) == e.sid = s IN SelectSeq(seq, Test)

OfKind(seq, kinds) ==
  LET Test(e) == e.ev \in kinds IN SelectSeq(seq, Test)

RECURSIVE ChunkText(_)
\* Concatenation, in arrival order, of the texts of the chunk events of seq.
ChunkText(seq) ==
  IF seq = << >> THEN ""
  ELSE IF Head(seq).ev = "ai-stream-chunk"
       THEN Head(seq).chunk \o ChunkText(Tail(seq))
       ELSE ChunkText(Tail(seq))

\* The places where a client may start collecting the chunks of the reply
\* that completes at position i: the start, or right after any earlier event
\* that is no chunk.
SegmentStarts(seq, i) ==
  {0} \cup {j \in 1..(i - 1) : seq[j].ev # "ai-stream-chunk"}

\* What a client sees of an event.
Visible(e) == [f \in DOMAIN e \ {"sid"} |-> e[f]]

VisibleSeq(seq) == [i \in 1..Len(seq) |-> Visible(seq[i])]

\* The stored messages of conversation c that submission s pushed.
StoredBy(c, s) ==
  LET Test(m) == m.sid = s
  IN IF c \in Convs THEN SelectSeq(store[c].messages, Test) ELSE << >>

Replies(msgs) ==
  LET Test(m) == m.role = "assistant" /\ ~m.error IN SelectSeq(msgs, Test)

AssistantMessages(msgs) ==
  LET Test(m) == m.role = "assistant" IN SelectSeq(msgs, Test)

FailureMarked(msgs) ==
  LET Test(m) == m.role = "assistant" /\ m.error IN SelectSeq(msgs, Test)

UserMessages(msgs) ==
  LET Test(m) == m.role = "user" IN SelectSeq(msgs, Test)

\* The submission's `ai-stream-complete` has been emitted.
CompleteEmitted(s) ==
  \/ sess[s].path = "socket" /\ sess[s].pc \in {"usageFind", "usageSave"}
  \/ sess[s].path = "socket" /\ sess[s].pc = "done" /\ sess[s].res \in {"ok", "usagefail"}
  \/ sess[s].path = "http" /\ sess[s].pc = "done" /\ sess[s].res = "ok"

\* The submission failed after its user message was persisted and broadcast:
\* the provider threw (socket), or the handler's catch ran after the
\* provider was invoked (HTTP).
FailedAfterBroadcast(s) ==
  /\ sess[s].invoked
  /\ \/ sess[s].path = "socket" /\ sess[s].pc = "done" /\ sess[s].res = "failed"
     \/ sess[s].path = "http" /\ sess[s].pc = "errSave"
     \/ sess[s].path = "http" /\ sess[s].pc = "done"
          /\ sess[s].res \in {"error500", "unhandled"}

(* ------------------------------- claims ------------------------------- *)

\* C1: for every conversation, at most one submission is STREAMING (between
\* its ai-typing-start and its terminal event) at any instant.
C1_AtMostOneStreaming ==
  \A c \in Convs : Cardinality(StreamingOn(c)) <= 1

\* C2: a submission made on a conversation (by a user who has access to it)
\* while the conversation has a STREAMING session is answered Busy, persists
\* no message and has no chunk emitted for it.
C2_BusyRejected ==
  \A s \in Sessions :
    (sess[s].busyAtSubmit /\ ConvOwner[sess[s].conv] = sess[s].user) =>
      /\ StoredBy(sess[s].conv, s) = << >>
      /\ \A k \in Sockets : OfKind(OfSession(inbox[k], s), {"ai-stream-chunk"}) = << >>
      /\ sess[s].pc = "done" => sess[s].res = "busy"

\* C3: for a member of the room, the chunk texts it observes up to an
\* ai-stream-complete, concatenated in arrival order, are exactly the content
\* of that ai-stream-complete (wherever the client starts collecting: the
\* events carry no submission id to tell the replies apart).
C3_RoundTrip ==
  \A c \in Convs : \A k \in rooms[c] :
    \A i \in 1..Len(inbox[k]) :
      inbox[k][i].ev = "ai-stream-complete" =>
        \E j \in SegmentStarts(inbox[k], i) :
          ChunkText(SubSeq(inbox[k], j + 1, i - 1)) = inbox[k][i].content

\* C4: every chunk event carries a sequence number, and the numbers a
\* connection observes within one submission go up by exactly one.
C4_ChunkSequenceNumbers ==
  \A k \in Sockets :
    LET seq == inbox[k] IN
    \A i \in 1..Len(seq) :
      seq[i].ev = "ai-stream-chunk" =>
        /\ "seq" \in DOMAIN Visible(seq[i])
        /\ \A j \in 1..(i - 1) :
             ( /\ seq[j].ev = "ai-stream-chunk" /\ seq[j].sid = seq[i].sid
               /\ \A l \in (j + 1)..(i - 1) :
                    ~(seq[l].ev = "ai-stream-chunk" /\ seq[l].sid = seq[i].sid) )
             => seq[i].seq = seq[j].seq + 1

RoomEvents == {"message-sent", "ai-stream-chunk", "ai-stream-complete"}

\* C5: when connections A and B are both in the room and A submits over its
\* socket, A and B receive the same message-sent, the same chunks in the same
\* order and the same ai-stream-complete payload, each exactly once.
C5_IdenticalDelivery ==
  \A s \in Sessions :
    (sess[s].path = "socket" /\ sess[s].conv \in Convs) =>
      \A b \in rooms[sess[s].conv] :
        sess[s].sock \in rooms[sess[s].conv] =>
          LET a == sess[s].sock
              seenA == VisibleSeq(OfKind(OfSession(inbox[a], s), RoomEvents))
              seenB == VisibleSeq(OfKind(OfSession(inbox[b], s), RoomEvents))
          IN /\ seenA = seenB
             /\ Len(OfKind(OfSession(inbox[b], s), {"ai-stream-chunk"}))
                  = sess[s].tokenCount

\* The same without the payloads' timestamps.
Untimed(e) == [f \in DOMAIN e \ {"sid", "timestamp"} |-> e[f]]

C5_IdenticalUpToTimestamp ==
  \A s \in Sessions :
    (sess[s].path = "socket" /\ sess[s].conv \in Convs) =>
      \A b \in rooms[sess[s].conv] :
        sess[s].sock \in rooms[sess[s].conv] =>
          LET a == sess[s].sock
              pa == OfKind(OfSession(inbox[a], s), RoomEvents)
              pb == OfKind(OfSession(inbox[b], s), RoomEvents)
          IN [i \in 1..Len(pa) |-> Untimed(pa[i])] = [i \in 1..Len(pb) |-> Untimed(pb[i])]

\* C6: the provider is invoked only once the submission's user message is
\* in the store; a submission whose user message was not written has no
\* provider call, no delta consumed and no chunk emitted.
C6_PersistBeforeGenerate ==
  \A s \in Sessions :
    /\ sess[s].invoked =>
         UserMessages(StoredBy(sess[s].conv, s)) # << >>
    /\ ~sess[s].invoked =>
         /\ sess[s].yields = 0 /\ sess[s].tokenCount = 0
         /\ \A k \in Sockets :
              OfKind(OfSession(inbox[k], s), {"ai-stream-chunk"}) = << >>
    /\ (sess[s].pc = "done" /\ sess[s].res = "persistfail") => ~sess[s].invoked

\* A submission whose user-message write failed next to one that streamed.
C6_Witness ==
  \E s, t \in Sessions :
    /\ sess[s].pc = "done" /\ sess[s].res \in {"persistfail", "unhandled"}
    /\ ~sess[s].invoked
    /\ sess[t].invoked /\ sess[t].tokenCount = MaxChunks

\* C7: a submission by a user who has used up the plan's messages is
\* answered QuotaExceeded: no message of it is persisted, nothing of it is
\* broadcast and the provider is not invoked.
C7_QuotaCheckedFirst ==
  \A s \in Sessions :
    sess[s].atLimit =>
      /\ ~sess[s].invoked
      /\ StoredBy(sess[s].conv, s) = << >>
      /\ \A k \in Sockets : \A i \in 1..Len(inbox[k]) :
           inbox[k][i].sid = s => inbox[k][i].ev = "error"
      /\ sess[s].pc = "done" => sess[s].res = "quota"

FollowedBy(seq, i, kind) ==
  \E j \in (i + 1)..Len(seq) : seq[j].ev = kind /\ seq[j].sid = seq[i].sid

\* C9: when a submission fails after its user message was persisted and
\* broadcast, every member of the room receives ai-stream-error and then
\* ai-typing-stop.
C9_ErrorReachesRoom ==
  \A s \in Sessions :
    FailedAfterBroadcast(s) =>
      \A k \in rooms[sess[s].conv] :
        \E i \in 1..Len(inbox[k]) :
          /\ inbox[k][i].ev = "ai-stream-error" /\ inbox[k][i].sid = s
          /\ FollowedBy(inbox[k], i, "ai-typing-stop")

\* C10: a submission that ended FAILED after a provider error has a
\* failure-marked assistant message in the conversation's history.
C10_FailureMarkedMessage ==
  \A s \in Sessions :
    (sess[s].invoked /\ sess[s].pc = "done" /\ sess[s].res \in {"failed", "error500"}) =>
      FailureMarked(StoredBy(sess[s].conv, s)) # << >>

\* The submission's terminal event and its ai-typing-stop have been emitted.
Terminated(s) ==
  /\ sess[s].invoked
  /\ ~Streaming(s)

\* C11: every submission that has entered STREAMING eventually reaches a
\* terminal state and emits ai-typing-stop, whatever the provider does, a
\* provider that never yields another delta, end of stream or error included.
C11_StreamingTerminates ==
  \A s \in Sessions : Streaming(s) ~> Terminated(s)

\* C12: when the last member of the room disconnects while a submission is
\* STREAMING, the submission is canceled: its buffer is discarded, so no
\* reply of it is ever persisted and it is never completed.
C12_CanceledWhenRoomEmpties ==
  \A s \in Sessions :
    sess[s].roomEmptied =>
      /\ Replies(StoredBy(sess[s].conv, s)) = << >>
      /\ ~CompleteEmitted(s)

\* The chunk events and the ai-stream-complete events of submission s that
\* connection k has received.
ChunksSeen(k, s) == OfKind(OfSession(inbox[k], s), {"ai-stream-chunk"})

CompletesSeen(k, s) == OfKind(OfSession(inbox[k], s), {"ai-stream-complete"})

\* C13: when the submitter's connection disconnects while its submission is
\* STREAMING and other members remain in the room, the submission goes on:
\* every remaining member has received every chunk forwarded so far, in
\* order, and, once the reply is completed, one ai-stream-complete with the
\* whole reply.
C13_StreamSurvivesSubmitter ==
  \A s \in Sessions :
    sess[s].lostAt >= 0 =>
      /\ (sess[s].pc = "done" /\ rooms[sess[s].conv] # {}) => sess[s].res # "canceled"
      /\ \A k \in rooms[sess[s].conv] :
           /\ ChunkText(ChunksSeen(k, s)) = sess[s].fullResponse
           /\ Len(ChunksSeen(k, s)) = sess[s].tokenCount
           /\ CompleteEmitted(s) =>
                /\ Len(CompletesSeen(k, s)) = 1
                /\ CompletesSeen(k, s)[1].content = sess[s].fullResponse

\* The submitter disconnected before the first chunk; a member that stayed
\* has received both chunks and the ai-stream-complete.
C13_Witness ==
  \E s \in Sessions : \E k \in Sockets :
    /\ sess[s].lostAt = 0 /\ sess[s].tokenCount = MaxChunks
    /\ k \in rooms[sess[s].conv]
    /\ CompleteEmitted(s)
    /\ Len(ChunksSeen(k, s)) = MaxChunks
    /\ Len(CompletesSeen(k, s)) = 1

\* C14: a failure of the usage increment after a completed generation is not
\* surfaced: no connection receives an error event of a submission whose
\* ai-stream-complete was emitted, and the reply stays persisted.
C14_UsageFailureSilent ==
  \A s \in Sessions :
    CompleteEmitted(s) =>
      /\ \A k \in Sockets :
           OfKind(OfSession(inbox[k], s), {"ai-stream-error", "error"}) = << >>
      /\ Len(Replies(StoredBy(sess[s].conv, s))) = 1

\* The submission was rejected with a connection-scoped error: the user does
\* not own the conversation, the quota check denied it, or the write of its
\* user message failed.
Rejected(s) ==
  /\ ~sess[s].invoked
  /\ \/ sess[s].pc = "done" /\ sess[s].res \in {"notfound", "quota", "persistfail"}
     \/ sess[s].path = "http" /\ sess[s].pc = "errSave"
     \/ sess[s].path = "http" /\ sess[s].pc = "done"
          /\ sess[s].res \in {"error500", "unhandled"}

\* C15: a submission rejected with a connection-scoped error leaves the
\* stored messages unchanged and emits no event to the room: the only event
\* of it is an error to the requesting connection.
C15_ConnectionScopedErrors ==
  \A s \in Sessions :
    Rejected(s) =>
      /\ StoredBy(sess[s].conv, s) = << >>
      /\ \A k \in Sockets : \A i \in 1..Len(inbox[k]) :
           inbox[k][i].sid = s =>
             inbox[k][i].ev = "error" /\ k = sess[s].sock

\* activeUsers.has(userId): what the status route reports as isConnected.
IsOnline(u) == activeUsers[u] # NoSock

\* The live connections of user u.
HandlesFor(u) == {k \in Sockets : socketUser[k] = u}

\* C16: a user is reported online if and only if at least one connection of
\* that user is live.
C16_OnlineIffLiveHandle ==
  \A u \in Users : IsOnline(u) <=> HandlesFor(u) # {}

\* C17: a notification to a user is answered 'not online' only when the user
\* has no live connection, and is otherwise delivered to every live
\* connection of the user.
C17_NotifyEveryHandle ==
  lastNotify.to # NoUser =>
    /\ lastNotify.status = 404 <=> lastNotify.handles = {}
    /\ lastNotify.status = 200 => lastNotify.got = lastNotify.handles

\* C18: a step of leave-conversation by a connection ends with the
\* connection out of the room and its user out of the room's typing set.
C18_LeaveClearsMembership ==
  [][\A k \in Sockets : \A c \in Convs :
       LeaveConversation(k, c) =>
         /\ k \notin rooms'[c]
         /\ socketUser[k] \notin typingUsers'[c]]_vars

\* A member was told that a user who had joined the conversation and was
\* typing in it left: that user has no typing entry in the conversation and
\* no connection in the room.
C18_Witness ==
  \E k \in Sockets : \E i \in 1..Len(inbox[k]) :
    LET e == inbox[k][i] IN
    /\ e.ev = "typing-stopped"
    /\ e.via = "leave" /\ e.had
    /\ e.userId \notin typingUsers[e.conversationId]
    /\ HandlesFor(e.userId) \cap rooms[e.conversationId] = {}
    /\ \E a \in HandlesFor(e.userId) : \E j \in 1..Len(inbox[a]) :
         inbox[a][j] = JoinedConversation(e.conversationId)

\* C19: a user has a typing entry in a conversation only if a live
\* connection of the user is a member of the conversation's room.
C19_TypingImpliesMember ==
  \A c \in Convs : \A u \in typingUsers[c] :
    HandlesFor(u) \cap rooms[c] # {}

\* C20: typing-stopped is broadcast for a user only when the user had a
\* typing entry in the conversation.
C20_StopTypingNoOp ==
  \A k \in Sockets : \A i \in 1..Len(inbox[k]) :
    inbox[k][i].ev = "typing-stopped" => inbox[k][i].had

\* C21: a typing entry started at time t is removed, or refreshed by a later
\* typing-start, eventually: without a refresh or an explicit stop, it does
\* not survive forever.
C21_TypingExpires ==
  \A c \in Convs : \A u \in Users : \A t \in 0..MaxTime :
    (u \in typingUsers[c] /\ typedAt[c][u] = t)
      ~> (u \notin typingUsers[c] \/ typedAt[c][u] > t)

\* The typing-stopped events for user u in conversation c among seq.
StoppedSeen(seq, c, u) ==
  LET Test(e) == e.ev = "typing-stopped" /\ e.conversationId = c /\ e.userId = u
  IN SelectSeq(seq, Test)

\* C22: a disconnect of a connection whose user is typing ends with the
\* connection out of the registry and of every room and the user out of
\* every typing set, and every remaining member of a room the user was
\* typing in has received exactly one more typing-stopped for that user.
C22_DisconnectCleansTyping ==
  [][\A k \in Sockets :
       Disconnect(k) =>
         LET u == socketUser[k] IN
         /\ k \notin userSockets' /\ socketUser'[k] = NoUser
         /\ activeUsers'[u] # k
         /\ \A r \in RoomIds : k \notin rooms'[r]
         /\ \A c \in Convs :
              /\ u \notin typingUsers'[c]
              /\ \A m \in rooms[c] \ {k} :
                   Len(StoppedSeen(inbox'[m], c, u)) =
                     Len(StoppedSeen(inbox[m], c, u))
                       + (IF u \in typingUsers[c] THEN 1 ELSE 0)]_vars

\* A member has been told that a user who was typing disconnected: that user
\* has no connection and no typing entry left.
C22_Witness ==
  \E m \in Sockets : \E i \in 1..Len(inbox[m]) :
    LET e == inbox[m][i] IN
    /\ e.ev = "typing-stopped" /\ e.via = "disconnect"
    /\ m \in rooms[e.conversationId]
    /\ HandlesFor(e.userId) = {}
    /\ \A c \in Convs : e.userId \notin typingUsers[c]
    /\ Len(StoppedSeen(inbox[m], e.conversationId, e.userId)) = 1

\* The HTTP submissions of user u for which the provider has been invoked.
HttpAccepted(u) ==
  {s \in Sessions : sess[s].path = "http" /\ sess[s].user = u /\ sess[s].invoked}

\* C23: every user starts with at most one message of the plan left
\* (messagesThisMonth is at least the limit less one), so over HTTP, the path
\* that checks the limit, at most one generation of a user is accepted,
\* whatever the interleaving.
C23_LimitNeverExceeded ==
  \A u \in Users :
    (Limits[subscription[u].plan] - 1) + Cardinality(HttpAccepted(u))
      <= Limits[subscription[u].plan]

\* The names of the events of seq, in order.
KindsOf(seq) == [i \in 1..Len(seq) |-> seq[i].ev]

\* message-sent, ai-typing-start, chunks, ai-stream-complete, ai-typing-stop.
FullOrder(kinds) ==
  /\ Len(kinds) >= 4
  /\ kinds[1] = "message-sent"
  /\ kinds[2] = "ai-typing-start"
  /\ \A i \in 3..(Len(kinds) - 2) : kinds[i] = "ai-stream-chunk"
  /\ kinds[Len(kinds) - 1] = "ai-stream-complete"
  /\ kinds[Len(kinds)] = "ai-typing-stop"

\* C24: once a submission has completed, every member of the room, the
\* submitter included, has received of it message-sent, ai-typing-start, the
\* chunks, ai-stream-complete and ai-typing-stop, in this order.
C24_TypingIndicatorToAll ==
  \A s \in Sessions :
    sess[s].res = "ok" =>
      \A k \in rooms[sess[s].conv] :
        FullOrder(KindsOf(OfSession(inbox[k], s)))

\* The last message stored in conversation c after the step.
LastStored(c) == store'[c].messages[Len(store'[c].messages)]

\* C25: the processingTime persisted with an assistant reply is no less than
\* the time that passed on the clock from the submission's becoming STREAMING
\* to the end of its stream.
C25_ProcessingTimeMeasured ==
  [][\A s \in Sessions :
       (SocketStreamEndOk(s) \/ HttpStreamEndOk(s)) =>
         LastStored(sess[s].conv).processingTime >= now - sess[s].startedAt]_vars

\* C26: every usage save that succeeds after a completed generation raises
\* the user's stored messagesThisMonth by exactly one.
C26_EveryCompletionCounted ==
  [][\A s \in Sessions :
       (SocketUsageSaveOk(s) \/ HttpUsageSave(s, TRUE)) =>
         usage'[sess[s].user] = usage[sess[s].user] + 1]_vars

\* C27: the members of a conversation's room are connections of the user who
\* owns the conversation.
C27_RoomMembersHaveAccess ==
  \A c \in Convs : \A k \in rooms[c] : socketUser[k] = ConvOwner[c]

\* C28: an HTTP submission made when the user had used up the messages of
\* the plan last paid for ("free" when no payment succeeded) is rejected:
\* the provider is not invoked for it.
C28_PaidLimitOnlyAfterPayment ==
  \A s \in Sessions :
    (sess[s].path = "http" /\ sess[s].atLimit) => ~sess[s].invoked

RECURSIVE SumTokens(_)
SumTokens(msgs) ==
  IF msgs = << >> THEN 0 ELSE Head(msgs).tokens + SumTokens(Tail(msgs))

\* C29: for every stored conversation, totalMessages and
\* metadata.messageCount equal the number of stored messages and totalTokens
\* the sum of their token counts.
C29_CountersMatchMessages ==
  \A c \in Convs :
    /\ store[c].totalMessages = Len(store[c].messages)
    /\ store[c].messageCount = Len(store[c].messages)
    /\ store[c].totalTokens = SumTokens(store[c].messages)

\* C30: after the server has handled SocketClient.joinConversation(c) the
\* connection is a member of the room of c; after
\* SocketClient.leaveConversation(c) it is not, and its user has no typing
\* entry in c.
C30_ClientServerAgree ==
  [][\A k \in Sockets : \A c \in Convs :
       /\ ClientJoinConversation(k, c) => k \in rooms'[c]
       /\ ClientLeaveConversation(k, c) =>
            k \notin rooms'[c] /\ socketUser[k] \notin typingUsers'[c]]_vars

====
